---- MODULE Spec2Model ----
(***************************************************************************)
(* A model of clime's ArgsParser (constructor and parse) and of its CLI's  *)
(* preProcessArguments as a state machine.  One ArgsParser instance is     *)
(* constructed from a schema; parse is called on it repeatedly.  A parse   *)
(* call is followed statement by statement: the token loop (one action per *)
(* kind of token) and then the validation stage (one action per check).    *)
(* preProcessArguments is followed the same way, one action per way        *)
(* through an iteration of its loop.                                       *)
(*                                                                         *)
(* Strings.  A token is a sequence of one-character strings, so that       *)
(* arg[0], arg[1] and substr are what they are in the code.  Names and     *)
(* messages are TLA+ strings built with \o.  A TLA+ string cannot hold     *)
(* the backtick character: Backtick stands for it in every message.        *)
(***************************************************************************)
EXTENDS Integers, Sequences, FiniteSets, TLC

VARIABLES
    arrays,                  \* contents of the array objects, by identity
    paramsDefinition,        \* this.paramsDefinition: <<>> or <<definition>>
    optionDefinitions,       \* this.optionDefinitions: <<>> or <<list>>
    requiredParamsNumber,    \* this.requiredParamsNumber
    optionDefinitionMap,     \* this.optionDefinitionMap: <<>> or <<name -> definition>>
    optionFlagMapping,       \* this.optionFlagMapping: <<>> or <<flag -> name>>
    args,                    \* parse's local args: identity of an array
    pendingParamDefinitions, \* parse's local: identity of an array
    commandArgs,             \* parse's local
    commandExtraArgs,        \* parse's local
    commandOptions,          \* parse's local: <<>> or <<name -> value>>
    requiredOptionMap,       \* parse's local: <<>> or <<keys in insertion order>>
    pc,                      \* the block of parse at which control is, or at
                             \* which the call ended
    result,                  \* <<>> or <<what parse returned>>
    error,                   \* <<>> or <<the UsageError parse threw>>
    used,                    \* an earlier parse call on this instance has ended
    files,                   \* the paths that exist in the file system
    description,             \* CLI: this.description, <<>> or <<the module it is of>>
    argv,                    \* preProcessArguments' argument
    commands,                \* preProcessArguments' local
    searchPath,              \* preProcessArguments' local
    argsIndex,               \* preProcessArguments' local
    targetPath,              \* preProcessArguments' local: <<>> or <<path>>
    loopIndex,               \* preProcessArguments' local i
    cliPc,                   \* where control is in preProcessArguments
    returned                 \* <<>> or <<what preProcessArguments returned>>

\* The state of the CLI and of its preProcessArguments.
cliVars == <<files, description, argv, commands, searchPath, argsIndex,
             targetPath, loopIndex, cliPc, returned>>

\* The state of the ArgsParser and of its parse.
parserVars == <<arrays, paramsDefinition, optionDefinitions,
                requiredParamsNumber, optionDefinitionMap, optionFlagMapping,
                args, pendingParamDefinitions, commandArgs, commandExtraArgs,
                commandOptions, requiredOptionMap, pc, result, error, used>>

vars == <<parserVars, cliVars>>

(***************************************************************************)
(* Bounds.                                                                 *)
(***************************************************************************)
\* The longest token sequence handed to parse.
MaxArgs == 3

\* The same where an option is to be given twice, each time with a value.
MaxOptionArgs == 4

(***************************************************************************)
(* Values.  undefined is <<>> where a variable may hold a list or a map,   *)
(* and Undefined where it is a value stored in a result.                   *)
(***************************************************************************)
Backtick == "'"

Str(cs) == [str |-> cs]
Num(n) == [num |-> n]
NaN == [nan |-> TRUE]
Bool(b) == [bool |-> b]
Undefined == [undef |-> TRUE]
Cast(cs) == [cast |-> cs]

\* What a call of type.cast leaves when it throws instead of returning: the
\* error it threw, which is no UsageError.
Raised(cs) == [raised |-> cs]

IsRaised(v) == "raised" \in DOMAIN v

RECURSIVE Text(_)
\* The string of a token (or of a part of one).
Text(cs) == IF cs = <<>> THEN "" ELSE Head(cs) \o Text(Tail(cs))

\* arg.substr(n): the token from its n-th character (counted from 0) on.
substr(arg, n) == SubSeq(arg, n + 1, Len(arg))

\* array.slice(0, n)
slice0(arr, n) == SubSeq(arr, 1, IF n < Len(arr) THEN n ELSE Len(arr))

RECURSIVE join(_, _)
\* array.join(sep) of an array of strings.
join(strs, sep) ==
    IF strs = <<>> THEN ""
    ELSE IF Len(strs) = 1 THEN strs[1]
    ELSE strs[1] \o sep \o join(Tail(strs), sep)

\* The delete left out.
DeleteKey_Keep(keys, name) == keys

\* The keys of requiredOptionMap without name (delete requiredOptionMap[name]).
DeleteKey(keys, name) == SelectSeq(keys, LAMBDA k : k # name)

Digits == {"0", "1", "2", "3", "4", "5", "6", "7", "8", "9"}

DigitValue(d) ==
    CASE d = "0" -> 0 [] d = "1" -> 1 [] d = "2" -> 2 [] d = "3" -> 3
      [] d = "4" -> 4 [] d = "5" -> 5 [] d = "6" -> 6 [] d = "7" -> 7
      [] d = "8" -> 8 [] d = "9" -> 9

RECURSIVE DecimalValue(_)
DecimalValue(cs) ==
    IF cs = <<>> THEN 0
    ELSE 10 * DecimalValue(SubSeq(cs, 1, Len(cs) - 1)) + DigitValue(cs[Len(cs)])

\* Number(arg) for the tokens of this model, which hold no white space, sign,
\* point, exponent or radix prefix: the empty string is 0, a string of decimal
\* digits is its value, and anything else is NaN.
ToNumber(arg) ==
    IF \A i \in 1..Len(arg) : arg[i] \in Digits THEN Num(DecimalValue(arg)) ELSE NaN

LowerChar(c) ==
    CASE c = "F" -> "f" [] c = "A" -> "a" [] c = "L" -> "l" [] c = "S" -> "s"
      [] c = "E" -> "e" [] c = "Y" -> "y" [] c = "X" -> "x" [] OTHER -> c

\* arg.toLowerCase()
toLowerCase(arg) == [i \in 1..Len(arg) |-> LowerChar(arg[i])]

\* castArgument with a type it does not know refused.
castArgument_RefuseUnknown(arg, type) ==
    CASE type = "String" -> Str(arg)
      [] type = "Number" -> ToNumber(arg)
      [] type = "Boolean" ->
            IF toLowerCase(arg) = <<"f", "a", "l", "s", "e">> THEN Bool(FALSE)
            ELSE LET n == ToNumber(arg)
                 IN  IF n = NaN THEN Bool(TRUE) ELSE Bool(n.num # 0)
      [] type = "Custom" -> Cast(arg)
      [] type = "CustomThrows" -> Raised(arg)
      [] OTHER -> Raised(arg)

\* castArgument with the token compared to false as it is written.
castArgument_CaseSensitive(arg, type) ==
    CASE type = "String" -> Str(arg)
      [] type = "Number" -> ToNumber(arg)
      [] type = "Boolean" ->
            IF arg = <<"f", "a", "l", "s", "e">> THEN Bool(FALSE)
            ELSE LET n == ToNumber(arg)
                 IN  IF n = NaN THEN Bool(TRUE) ELSE Bool(n.num # 0)
      [] type = "Custom" -> Cast(arg)
      [] type = "CustomThrows" -> Raised(arg)
      [] OTHER -> Undefined

\* castArgument(arg, type).  A type is "String", "Number", "Boolean", a type
\* that isStringCastable, or "Other".  The cast(arg, context) of a castable
\* type is the caller's code: that of "Custom" returns a value, kept as
\* Cast(arg), and that of "CustomThrows" throws, which castArgument does not
\* catch.
castArgument(arg, type) ==
    CASE type = "String" -> Str(arg)
      [] type = "Number" -> ToNumber(arg)
      [] type = "Boolean" ->
            IF toLowerCase(arg) = <<"f", "a", "l", "s", "e">> THEN Bool(FALSE)
            ELSE LET n == ToNumber(arg)
                 IN  IF n = NaN THEN Bool(TRUE) ELSE Bool(n.num # 0)
      [] type = "Custom" -> Cast(arg)
      [] type = "CustomThrows" -> Raised(arg)
      [] OTHER -> Undefined

(***************************************************************************)
(* Arrays are objects: two variables may hold the same array, and a shift  *)
(* through one is seen through the other.  arrays maps the identity of     *)
(* each array to its contents.  "argv" is the array the caller passes to   *)
(* parse and "paramDefinitions" the one held in this.paramDefinitions;     *)
(* "args" and "pending" are the copies parse makes of them.                *)
(***************************************************************************)
ArrayIds == {"argv", "paramDefinitions", "args", "pending"}

\* No copy made: the source array itself.
concat_Alias(source, fresh) == source

\* source.concat(): the identity of the array it returns, a new array (fresh).
concat(source, fresh) == fresh

(***************************************************************************)
(* The constructor.                                                        *)
(***************************************************************************)
\* The last index of defs at which In holds: a later definition overwrites
\* an earlier one of the same name or flag.
LastIndex(In) == CHOOSE i \in In : \A j \in In : j <= i

\* this.optionDefinitionMap after the constructor's loop.
BuildOptionDefinitionMap(defs) ==
    [name \in {defs[i].name : i \in 1..Len(defs)} |->
        defs[LastIndex({i \in 1..Len(defs) : defs[i].name = name})]]

\* this.optionFlagMapping after the constructor's loop: a definition with no
\* flag (flag = "") adds nothing.
BuildOptionFlagMapping(defs) ==
    [flag \in {defs[i].flag : i \in 1..Len(defs)} \ {""} |->
        defs[LastIndex({i \in 1..Len(defs) : defs[i].flag = flag})].name]

\* new ArgsParser(helpProvider, paramDefinitions, paramsDefinition,
\*                optionDefinitions, requiredParamsNumber)
Constructor(schema) ==
    /\ arrays = [id \in ArrayIds |->
                    IF id = "paramDefinitions" THEN schema.paramDefinitions ELSE <<>>]
    /\ paramsDefinition = schema.paramsDefinition
    /\ optionDefinitions = schema.optionDefinitions
    /\ requiredParamsNumber = schema.requiredParamsNumber
    /\ optionDefinitionMap =
          IF schema.optionDefinitions = <<>> THEN <<>>
          ELSE <<BuildOptionDefinitionMap(schema.optionDefinitions[1])>>
    /\ optionFlagMapping =
          IF schema.optionDefinitions = <<>> THEN <<>>
          ELSE <<BuildOptionFlagMapping(schema.optionDefinitions[1])>>
    /\ args = "args"
    /\ pendingParamDefinitions = "pending"
    /\ commandArgs = <<>>
    /\ commandExtraArgs = <<>>
    /\ commandOptions = <<>>
    /\ requiredOptionMap = <<>>
    /\ pc = "ready"
    /\ result = <<>>
    /\ error = <<>>
    /\ used = FALSE

(***************************************************************************)
(* parse: the variables its closures share, as one record.                 *)
(***************************************************************************)
\* The type of a definition that declares none (undefined): paramsType, line
\* 274, is then undefined too.
NoType == ""

Env ==
    [args |-> arrays[args],
     pending |-> arrays[pendingParamDefinitions],
     commandArgs |-> commandArgs,
     commandExtraArgs |-> commandExtraArgs,
     commandOptions |-> commandOptions,
     requiredOptionMap |-> requiredOptionMap,
     optionDefinitionMap |-> optionDefinitionMap,
     optionFlagMapping |-> optionFlagMapping,
     paramsType |-> IF paramsDefinition = <<>> \/ paramsDefinition[1].type = NoType
                    THEN <<>>
                    ELSE <<paramsDefinition[1].type>>,
     error |-> <<>>]

\* throw new UsageError(that.helpProvider, message)
Throw(e, message) == [e EXCEPT !.error = <<[message |-> message]>>]

\* The error a cast threw goes up through castArgument and its caller: the
\* statement that called castArgument stores nothing.
Propagate(e, v) == [e EXCEPT !.error = <<[thrown |-> v.raised]>>]

\* commandOptions with every option, toggle or not, set to its default.
RECURSIVE InitialOptions_ToggleDefault(_, _)
InitialOptions_ToggleDefault(defs, map) ==
    IF defs = <<>> THEN map
    ELSE LET d == Head(defs)
         IN  InitialOptions_ToggleDefault(Tail(defs),
                 [n \in DOMAIN map \cup {d.name} |->
                     IF n = d.name THEN d.default ELSE map[n]])

\* commandOptions and requiredOptionMap as lines 246-268 leave them.
RECURSIVE InitialOptions(_, _)
InitialOptions(defs, map) ==
    IF defs = <<>> THEN map
    ELSE LET d == Head(defs)
         IN  InitialOptions(Tail(defs),
                 [n \in DOMAIN map \cup {d.name} |->
                     IF n = d.name
                     THEN (IF d.toggle THEN Bool(FALSE) ELSE d.default)
                     ELSE map[n]])

\* The array index a property name is, or -1: of the names of this model the
\* one-digit ones are array indices.
KeyIndex(name) ==
    CASE name = "0" -> 0 [] name = "1" -> 1 [] name = "2" -> 2 [] name = "3" -> 3
      [] name = "4" -> 4 [] name = "5" -> 5 [] name = "6" -> 6 [] name = "7" -> 7
      [] name = "8" -> 8 [] name = "9" -> 9 [] OTHER -> -1

\* requiredOptionMap[name] = true, the keys kept in the order Object.keys
\* lists them: array indices in ascending order, then the other names in
\* the order they were first set.
AddKey(keys, name) ==
    IF \E i \in 1..Len(keys) : keys[i] = name THEN keys
    ELSE IF KeyIndex(name) < 0 THEN Append(keys, name)
    ELSE LET before == {i \in 1..Len(keys) :
                           KeyIndex(keys[i]) >= 0 /\ KeyIndex(keys[i]) < KeyIndex(name)}
         IN  SubSeq(keys, 1, Cardinality(before)) \o <<name>>
             \o SubSeq(keys, Cardinality(before) + 1, Len(keys))

RECURSIVE InitialRequired(_, _)
InitialRequired(defs, keys) ==
    IF defs = <<>> THEN keys
    ELSE LET d == Head(defs)
         IN  InitialRequired(Tail(defs),
                 IF d.required THEN AddKey(keys, d.name) ELSE keys)

\* castArgument is above.

\* consumeArgument with the pending definitions taken from the end.
consumeArgument_Pop(e, arg) ==
    IF e.pending # <<>>
    THEN LET definition == e.pending[Len(e.pending)]
             e1 == [e EXCEPT !.pending = SubSeq(@, 1, Len(@) - 1)]
             v == castArgument(arg, definition.type)
         IN  IF IsRaised(v) THEN Propagate(e1, v)
             ELSE [e1 EXCEPT !.commandArgs = Append(@, v)]
    ELSE LET v == IF e.paramsType # <<>>
                  THEN castArgument(arg, e.paramsType[1])
                  ELSE Str(arg)
         IN  IF IsRaised(v) THEN Propagate(e, v)
             ELSE [e EXCEPT !.commandExtraArgs = Append(@, v)]

\* consumeOption without its test for a dash.
consumeOption_AcceptDash(e, name, definition) ==
    IF e.args = <<>>
    THEN Throw(e, "Expecting value for option " \o Backtick \o name \o Backtick)
    ELSE LET arg == Head(e.args)
             e1 == [e EXCEPT !.args = Tail(@)]
             v == castArgument(arg, definition.type)
         IN  IF IsRaised(v) THEN Propagate(e1, v)
             ELSE [e1 EXCEPT !.commandOptions[1][name] = v]

consumeOption(e, name, definition) ==
    IF e.args = <<>>
    THEN Throw(e, "Expecting value for option " \o Backtick \o name \o Backtick)
    ELSE LET arg == Head(e.args)
             e1 == [e EXCEPT !.args = Tail(@)]
             v == castArgument(arg, definition.type)
         IN  IF Len(arg) > 0 /\ arg[1] = "-"
             THEN Throw(e1, "Expecting a value instead of an option or toggle \""
                            \o Text(arg) \o "\" for option "
                            \o Backtick \o name \o Backtick)
             ELSE IF IsRaised(v) THEN Propagate(e1, v)
             ELSE [e1 EXCEPT !.commandOptions[1][name] = v]

consumeToggleOrOption(e, name) ==
    IF e.optionDefinitionMap = <<>> \/ name \notin DOMAIN e.optionDefinitionMap[1]
    THEN Throw(e, "Unknown option " \o Backtick \o name \o Backtick)
    ELSE LET definition == e.optionDefinitionMap[1][name]
             e1 == IF definition.required
                   THEN [e EXCEPT !.requiredOptionMap[1] = DeleteKey(@, name)]
                   ELSE e
         IN  IF definition.toggle
             THEN [e1 EXCEPT !.commandOptions[1][name] = Bool(TRUE)]
             ELSE consumeOption(e1, name, definition)

RECURSIVE consumeFlagsFrom(_, _, _)
\* The iterations of consumeFlags' loop from i (counted from 1) on.
consumeFlagsFrom(e, flags, i) ==
    IF i > Len(flags) \/ e.error # <<>> THEN e
    ELSE LET flag == flags[i]
         IN  IF e.optionFlagMapping = <<>> \/ flag \notin DOMAIN e.optionFlagMapping[1]
             THEN Throw(e, "Unknown option flag \"" \o flag \o "\"")
             ELSE LET name == e.optionFlagMapping[1][flag]
                      definition == e.optionDefinitionMap[1][name]
                      e1 == IF definition.required
                            THEN [e EXCEPT !.requiredOptionMap[1] = DeleteKey(@, name)]
                            ELSE e
                  IN  IF definition.toggle
                      THEN consumeFlagsFrom(
                               [e1 EXCEPT !.commandOptions[1][name] = Bool(TRUE)],
                               flags, i + 1)
                      ELSE IF i # Len(flags)
                      THEN Throw(e1, "Only the last flag in a sequence can refer to an option instead of a toggle")
                      ELSE consumeFlagsFrom(consumeOption(e1, name, definition),
                                            flags, i + 1)

\* consumeFlags with a cluster of no flags refused.
consumeFlags_RefuseEmpty(e, flags) ==
    IF flags = <<>> THEN Throw(e, "Unknown option flag \"\"")
    ELSE consumeFlagsFrom(e, flags, 1)

\* consumeFlags with every flag looked up before any is acted on.
consumeFlags_UnknownFirst(e, flags) ==
    LET unknown == {i \in 1..Len(flags) :
                       e.optionFlagMapping = <<>>
                       \/ flags[i] \notin DOMAIN e.optionFlagMapping[1]}
    IN  IF unknown # {}
        THEN Throw(e, "Unknown option flag \""
                      \o flags[CHOOSE i \in unknown : \A j \in unknown : i <= j]
                      \o "\"")
        ELSE consumeFlagsFrom(e, flags, 1)

consumeFlags(e, flags) == consumeFlagsFrom(e, flags, 1)

consumeArgument(e, arg) ==
    IF e.pending # <<>>
    THEN LET definition == Head(e.pending)
             e1 == [e EXCEPT !.pending = Tail(@)]
             v == castArgument(arg, definition.type)
         IN  IF IsRaised(v) THEN Propagate(e1, v)
             ELSE [e1 EXCEPT !.commandArgs = Append(@, v)]
    ELSE LET v == IF e.paramsType # <<>>
                  THEN castArgument(arg, e.paramsType[1])
                  ELSE Str(arg)
         IN  IF IsRaised(v) THEN Propagate(e, v)
             ELSE [e EXCEPT !.commandExtraArgs = Append(@, v)]

\* The help test without the question mark.
IsHelp_NoQuestionMark(arg) ==
    arg \in {<<"-", "h">>, <<"-", "-", "h", "e", "l", "p">>}

\* The help test without its --help alternative.
IsHelp_ShortOnly(arg) ==
    arg \in {<<"-", "h">>, <<"-", "?">>}

\* /^(?:-[h?]|--help)$/.test(arg)
IsHelp(arg) ==
    arg \in {<<"-", "h">>, <<"-", "?">>, <<"-", "-", "h", "e", "l", "p">>}

\* The dash test with a token that is a dash and nothing else let through.
IsDash_NotLone(arg) == Len(arg) >= 2 /\ arg[1] = "-"

\* arg[0] === '-'
IsDash(arg) == Len(arg) >= 1 /\ arg[1] = "-"

\* arg[1] === '-'
IsDoubleDash(arg) == Len(arg) >= 2 /\ arg[2] = "-"

(***************************************************************************)
(* parse: its blocks, as operators on the shared variables.                *)
(***************************************************************************)
\* The context parse builds from its sequence and cwd arguments.
Context == [cwd |-> "/", commands |-> <<"cli">>]

\* Lines 309-315.
requiredOptionsCheck(e) ==
    IF e.requiredOptionMap # <<>> /\ e.requiredOptionMap[1] # <<>>
    THEN Throw(e, "Missing required option(s) " \o Backtick
                  \o join(e.requiredOptionMap[1], Backtick \o ", " \o Backtick)
                  \o Backtick)
    ELSE e

\* The required-positional check with the required-option check run first.
requiredParamsCheck_OptionsFirst(e, expecting) ==
    LET got == Len(e.commandArgs)
        first == requiredOptionsCheck(e)
    IN  IF first.error # <<>> THEN first
        ELSE IF got < expecting
        THEN LET missing == slice0(e.pending, expecting - got)
                 missingArgNames ==
                     [i \in 1..Len(missing) |->
                         Backtick \o missing[i].name \o Backtick]
             IN  Throw(e, "Expecting argument(s) " \o join(missingArgNames, ", "))
        ELSE e

\* The required-positional check with got <= expecting for got < expecting.
requiredParamsCheck_OffByOne(e, expecting) ==
    LET got == Len(e.commandArgs)
    IN  IF got <= expecting
        THEN LET missing == slice0(e.pending, expecting - got)
                 missingArgNames ==
                     [i \in 1..Len(missing) |->
                         Backtick \o missing[i].name \o Backtick]
             IN  Throw(e, "Expecting argument(s) " \o join(missingArgNames, ", "))
        ELSE e

\* Lines 296-307.
requiredParamsCheck(e, expecting) ==
    LET got == Len(e.commandArgs)
    IN  IF got < expecting
        THEN LET missing == slice0(e.pending, expecting - got)
                 missingArgNames ==
                     [i \in 1..Len(missing) |->
                         Backtick \o missing[i].name \o Backtick]
             IN  Throw(e, "Expecting argument(s) " \o join(missingArgNames, ", "))
        ELSE e

\* The default filling left out.
fillDefaults_None(e) == e

\* Lines 317-319.
fillDefaults(e) ==
    [e EXCEPT !.commandArgs =
                 @ \o [i \in 1..Len(e.pending) |-> e.pending[i].default]]

\* The checks of lines 321-330 without the one for a required variadic
\* definition.
extraArgsCheck_NoVariadicCheck(e, declared, variadic) ==
    IF e.commandExtraArgs # <<>> /\ variadic = <<>>
    THEN Throw(e, "Expecting " \o ToString(declared)
                  \o " parameter(s) at most but got "
                  \o ToString(Len(e.commandExtraArgs) + declared)
                  \o " instead")
    ELSE e

\* The excess-positional check with got counting the extra values only.
extraArgsCheck_ExtrasOnly(e, declared, variadic) ==
    IF e.commandExtraArgs # <<>>
    THEN IF variadic = <<>>
         THEN Throw(e, "Expecting " \o ToString(declared)
                       \o " parameter(s) at most but got "
                       \o ToString(Len(e.commandExtraArgs))
                       \o " instead")
         ELSE e
    ELSE IF variadic # <<>> /\ variadic[1].required
         THEN Throw(e, "Expecting at least one element for variadic parameters "
                       \o Backtick \o variadic[1].name \o Backtick)
         ELSE e

\* Lines 321-330; declared is paramDefinitions.length.
extraArgsCheck(e, declared, variadic) ==
    IF e.commandExtraArgs # <<>>
    THEN IF variadic = <<>>
         THEN Throw(e, "Expecting " \o ToString(declared)
                       \o " parameter(s) at most but got "
                       \o ToString(Len(e.commandExtraArgs) + declared)
                       \o " instead")
         ELSE e
    ELSE IF variadic # <<>> /\ variadic[1].required
         THEN Throw(e, "Expecting at least one element for variadic parameters "
                       \o Backtick \o variadic[1].name \o Backtick)
         ELSE e

\* Lines 332-337.
returnValue(e) ==
    [args |-> e.commandArgs,
     extraArgs |-> e.commandExtraArgs,
     options |-> e.commandOptions,
     context |-> Context]

\* Lines 280-282.
helpValue == [help |-> TRUE]

(***************************************************************************)
(* The actions.                                                            *)
(***************************************************************************)
Running == pc # "ready" /\ result = <<>> /\ error = <<>>

fields == <<paramsDefinition, optionDefinitions, requiredParamsNumber,
            optionDefinitionMap, optionFlagMapping>>

\* The closures' writes, stored back where the variables point.
Commit(e) ==
    /\ arrays' = [arrays EXCEPT ![args] = e.args,
                                ![pendingParamDefinitions] = e.pending]
    /\ commandArgs' = e.commandArgs
    /\ commandExtraArgs' = e.commandExtraArgs
    /\ commandOptions' = e.commandOptions
    /\ requiredOptionMap' = e.requiredOptionMap
    /\ error' = e.error

\* The next token read and left in place.
Shifted_Peek == Env

\* let arg = args.shift()
Shifted == [Env EXCEPT !.args = Tail(@)]

\* parse with requiredOptionMap built by the first call only and kept by the
\* later ones.
ParseBegin_KeepRequired(tokens) ==
    /\ pc = "ready" \/ result # <<>> \/ error # <<>>
    /\ LET a == concat("argv", "args")
           p == concat("paramDefinitions", "pending")
           passed == [arrays EXCEPT !["argv"] = tokens]
           copied == [passed EXCEPT ![a] = passed["argv"]]
       IN  /\ args' = a
           /\ pendingParamDefinitions' = p
           /\ arrays' = [copied EXCEPT ![p] = copied["paramDefinitions"]]
    /\ commandArgs' = <<>>
    /\ commandExtraArgs' = <<>>
    /\ commandOptions' =
          IF optionDefinitions = <<>> THEN <<>>
          ELSE <<InitialOptions(optionDefinitions[1], <<>>)>>
    /\ requiredOptionMap' =
          IF pc # "ready" THEN requiredOptionMap
          ELSE IF optionDefinitions = <<>> THEN <<>>
          ELSE <<InitialRequired(optionDefinitions[1], <<>>)>>
    /\ pc' = "loop"
    /\ result' = <<>>
    /\ error' = <<>>
    /\ used' = (pc # "ready")
    /\ UNCHANGED <<cliVars, fields>>

\* A caller calls parse(sequence, tokens, cwd): lines 227-274.
ParseBegin(tokens) ==
    /\ pc = "ready" \/ result # <<>> \/ error # <<>>
    /\ LET a == concat("argv", "args")
           p == concat("paramDefinitions", "pending")
           passed == [arrays EXCEPT !["argv"] = tokens]
           copied == [passed EXCEPT ![a] = passed["argv"]]
       IN  /\ args' = a
           /\ pendingParamDefinitions' = p
           /\ arrays' = [copied EXCEPT ![p] = copied["paramDefinitions"]]
    /\ commandArgs' = <<>>
    /\ commandExtraArgs' = <<>>
    /\ commandOptions' =
          IF optionDefinitions = <<>> THEN <<>>
          ELSE <<InitialOptions(optionDefinitions[1], <<>>)>>
    /\ requiredOptionMap' =
          IF optionDefinitions = <<>> THEN <<>>
          ELSE <<InitialRequired(optionDefinitions[1], <<>>)>>
    /\ pc' = "loop"
    /\ result' = <<>>
    /\ error' = <<>>
    /\ used' = (pc # "ready")
    /\ UNCHANGED <<cliVars, fields>>

\* Lines 277-283: the token is a help request.
Help ==
    /\ Running /\ pc = "loop" /\ arrays[args] # <<>>
    /\ IsHelp(Head(arrays[args]))
    /\ arrays' = [arrays EXCEPT ![args] = Tail(@)]
    /\ result' = <<helpValue>>
    /\ UNCHANGED <<cliVars, fields, args, pendingParamDefinitions, commandArgs,
                   commandExtraArgs, commandOptions, requiredOptionMap, pc,
                   error, used>>

\* Lines 277, 285-287: a long option or toggle.
ConsumeToggleOrOption ==
    /\ Running /\ pc = "loop" /\ arrays[args] # <<>>
    /\ LET arg == Head(arrays[args])
       IN  /\ ~IsHelp(arg) /\ IsDash(arg) /\ IsDoubleDash(arg)
           /\ Commit(consumeToggleOrOption(Shifted, Text(substr(arg, 2))))
    /\ UNCHANGED <<cliVars, fields, args, pendingParamDefinitions, pc, result, used>>

\* Lines 277, 285, 288-290: a cluster of flags.
ConsumeFlags ==
    /\ Running /\ pc = "loop" /\ arrays[args] # <<>>
    /\ LET arg == Head(arrays[args])
       IN  /\ ~IsHelp(arg) /\ IsDash(arg) /\ ~IsDoubleDash(arg)
           /\ Commit(consumeFlags(Shifted, substr(arg, 1)))
    /\ UNCHANGED <<cliVars, fields, args, pendingParamDefinitions, pc, result, used>>

\* Lines 277, 291-293: a positional token.
ConsumeArgument ==
    /\ Running /\ pc = "loop" /\ arrays[args] # <<>>
    /\ LET arg == Head(arrays[args])
       IN  /\ ~IsHelp(arg) /\ ~IsDash(arg)
           /\ Commit(consumeArgument(Shifted, arg))
    /\ UNCHANGED <<cliVars, fields, args, pendingParamDefinitions, pc, result, used>>

\* The loop ends (line 276) and the first check runs: lines 296-307.
CheckRequiredParams ==
    /\ Running /\ pc = "loop" /\ arrays[args] = <<>>
    /\ LET e == requiredParamsCheck(Env, requiredParamsNumber)
       IN  /\ Commit(e)
           /\ pc' = IF e.error # <<>> THEN "requiredParams" ELSE "requiredOptions"
    /\ UNCHANGED <<cliVars, fields, args, pendingParamDefinitions, result, used>>

\* Lines 309-315.
CheckRequiredOptions ==
    /\ Running /\ pc = "requiredOptions"
    /\ LET e == requiredOptionsCheck(Env)
       IN  /\ Commit(e)
           /\ pc' = IF e.error # <<>> THEN "requiredOptions" ELSE "defaults"
    /\ UNCHANGED <<cliVars, fields, args, pendingParamDefinitions, result, used>>

\* Lines 317-319.
FillDefaults ==
    /\ Running /\ pc = "defaults"
    /\ Commit(fillDefaults(Env))
    /\ pc' = "extraArgs"
    /\ UNCHANGED <<cliVars, fields, args, pendingParamDefinitions, result, used>>

\* Lines 321-330.
CheckExtraArgs ==
    /\ Running /\ pc = "extraArgs"
    /\ LET e == extraArgsCheck(Env, Len(arrays["paramDefinitions"]), paramsDefinition)
       IN  /\ Commit(e)
           /\ pc' = IF e.error # <<>> THEN "extraArgs" ELSE "return"
    /\ UNCHANGED <<cliVars, fields, args, pendingParamDefinitions, result, used>>

\* Lines 332-337.
Return ==
    /\ Running /\ pc = "return"
    /\ result' = <<returnValue(Env)>>
    /\ UNCHANGED <<cliVars, fields, arrays, args, pendingParamDefinitions, commandArgs,
                   commandExtraArgs, commandOptions, requiredOptionMap, pc,
                   error, used>>

(***************************************************************************)
(* parse as one function: what a call returns or throws on a parser newly  *)
(* constructed from the schema this parser holds.                          *)
(***************************************************************************)
\* The closures' variables as lines 227-274 set them on a new parser.
NewEnv(tokens) ==
    [args |-> tokens,
     pending |-> arrays["paramDefinitions"],
     commandArgs |-> <<>>,
     commandExtraArgs |-> <<>>,
     commandOptions |->
         IF optionDefinitions = <<>> THEN <<>>
         ELSE <<InitialOptions(optionDefinitions[1], <<>>)>>,
     requiredOptionMap |->
         IF optionDefinitions = <<>> THEN <<>>
         ELSE <<InitialRequired(optionDefinitions[1], <<>>)>>,
     optionDefinitionMap |->
         IF optionDefinitions = <<>> THEN <<>>
         ELSE <<BuildOptionDefinitionMap(optionDefinitions[1])>>,
     optionFlagMapping |->
         IF optionDefinitions = <<>> THEN <<>>
         ELSE <<BuildOptionFlagMapping(optionDefinitions[1])>>,
     paramsType |-> IF paramsDefinition = <<>> \/ paramsDefinition[1].type = NoType
                    THEN <<>>
                    ELSE <<paramsDefinition[1].type>>,
     error |-> <<>>]

\* Lines 296-337.
parseValidation(e) ==
    LET e1 == requiredParamsCheck(e, requiredParamsNumber)
        e2 == requiredOptionsCheck(e1)
        e3 == fillDefaults(e2)
        e4 == extraArgsCheck(e3, Len(arrays["paramDefinitions"]), paramsDefinition)
    IN  IF e1.error # <<>> THEN [result |-> <<>>, error |-> e1.error]
        ELSE IF e2.error # <<>> THEN [result |-> <<>>, error |-> e2.error]
        ELSE IF e4.error # <<>> THEN [result |-> <<>>, error |-> e4.error]
        ELSE [result |-> <<returnValue(e4)>>, error |-> <<>>]

RECURSIVE parseLoop(_)
\* Lines 276-294, and then the validation.
parseLoop(e) ==
    IF e.error # <<>> THEN [result |-> <<>>, error |-> e.error]
    ELSE IF e.args = <<>> THEN parseValidation(e)
    ELSE LET arg == Head(e.args)
             e1 == [e EXCEPT !.args = Tail(@)]
         IN  IF IsHelp(arg) THEN [result |-> <<helpValue>>, error |-> <<>>]
             ELSE IF IsDash(arg)
             THEN IF IsDoubleDash(arg)
                  THEN parseLoop(consumeToggleOrOption(e1, Text(substr(arg, 2))))
                  ELSE parseLoop(consumeFlags(e1, substr(arg, 1)))
             ELSE parseLoop(consumeArgument(e1, arg))

\* new ArgsParser(...).parse(sequence, tokens, cwd)
FreshParse(tokens) == parseLoop(NewEnv(tokens))

(***************************************************************************)
(* The CLI and its preProcessArguments.  A path is the sequence of its     *)
(* segments below the file system's root; a segment is a string.  The file *)
(* system does not change while preProcessArguments runs.                  *)
(***************************************************************************)
\* this.name and this.root, as the constructor sets them.
CLIName == <<"c", "l", "i">>
Root == <<"r", "o", "o", "t">>

\* \w (and \d, which it includes)
WordChars ==
    {"a", "b", "c", "d", "e", "f", "g", "h", "i", "j", "k", "l", "m", "n", "o",
     "p", "q", "r", "s", "t", "u", "v", "w", "x", "y", "z",
     "A", "B", "C", "D", "E", "F", "G", "H", "I", "J", "K", "L", "M", "N", "O",
     "P", "Q", "R", "S", "T", "U", "V", "W", "X", "Y", "Z", "_"} \cup Digits

\* validCommandNameRegex.test(arg): /^[\w\d]+(?:-[\w\d]+)*$/
validCommandName(arg) ==
    /\ Len(arg) >= 1
    /\ \A k \in 1..Len(arg) : arg[k] \in WordChars \cup {"-"}
    /\ arg[1] # "-" /\ arg[Len(arg)] # "-"
    /\ \A k \in 1..(Len(arg) - 1) : ~(arg[k] = "-" /\ arg[k + 1] = "-")

\* Path.join(path, segment)
PathJoin(path, segment) == Append(path, segment)

\* path + '.js'
PlusJs(path) == [path EXCEPT ![Len(path)] = @ \o ".js"]

\* FS.existsSync(path)
existsSync(path) == path \in files

\* argv[k], k counted from 0.
ArgAt(k) == argv[k + 1]

\* new CLI(name, root), with the file system it finds; no call of execute yet.
CLIConstructor(fs) ==
    /\ files = fs
    /\ description = <<>>
    /\ argv = <<>>
    /\ commands = <<>>
    /\ searchPath = <<>>
    /\ argsIndex = 0
    /\ targetPath = <<>>
    /\ loopIndex = 0
    /\ cliPc = "idle"
    /\ returned = <<>>

\* preProcessArguments(tokens) is called: lines 70-85.
PreProcessBegin(tokens) ==
    /\ cliPc = "idle"
    /\ argv' = tokens
    /\ commands' = <<CLIName>>
    /\ searchPath' = <<Text(Root)>>
    /\ argsIndex' = 2
    /\ LET entryPath == PathJoin(<<Text(Root)>>, "default.js")
       IN  IF existsSync(entryPath)
           THEN /\ targetPath' = <<entryPath>>
                /\ description' = <<entryPath>>
           ELSE /\ targetPath' = <<<<Text(Root)>>>>
                /\ description' = description
    /\ loopIndex' = 2
    /\ cliPc' = "loop"
    /\ returned' = <<>>
    /\ UNCHANGED <<parserVars, files>>

\* Line 88: the loop's test fails.
LoopEnd ==
    /\ cliPc = "loop" /\ ~(loopIndex < Len(argv))
    /\ cliPc' = "return"
    /\ UNCHANGED <<parserVars, files, description, argv, commands, searchPath,
                   argsIndex, targetPath, loopIndex, returned>>

\* Lines 89-91, 113-115: the token is no valid command name.
BreakInvalid ==
    /\ cliPc = "loop" /\ loopIndex < Len(argv)
    /\ ~validCommandName(ArgAt(loopIndex))
    /\ cliPc' = "return"
    /\ UNCHANGED <<parserVars, files, description, argv, commands, searchPath,
                   argsIndex, targetPath, loopIndex, returned>>

\* The paths tried for a search path, in their order.
possiblePaths(path) == <<PlusJs(path), PathJoin(path, "default.js"), path>>

\* Found with argsIndex = i for argsIndex = i + 1.
Found_OffByOne ==
    /\ cliPc = "loop" /\ loopIndex < Len(argv)
    /\ validCommandName(ArgAt(loopIndex))
    /\ LET path == PathJoin(searchPath, Text(ArgAt(loopIndex)))
           existing == {k \in 1..3 : existsSync(possiblePaths(path)[k])}
       IN  /\ existing # {}
           /\ searchPath' = path
           /\ targetPath' = <<possiblePaths(path)[CHOOSE k \in existing :
                                                     \A l \in existing : k <= l]>>
    /\ argsIndex' = loopIndex
    /\ commands' = Append(commands, ArgAt(loopIndex))
    /\ loopIndex' = loopIndex + 1
    /\ UNCHANGED <<parserVars, files, description, argv, cliPc, returned>>

\* Lines 89-106: the token is a valid name and one of its paths exists.
Found ==
    /\ cliPc = "loop" /\ loopIndex < Len(argv)
    /\ validCommandName(ArgAt(loopIndex))
    /\ LET path == PathJoin(searchPath, Text(ArgAt(loopIndex)))
           existing == {k \in 1..3 : existsSync(possiblePaths(path)[k])}
       IN  /\ existing # {}
           /\ searchPath' = path
           /\ targetPath' = <<possiblePaths(path)[CHOOSE k \in existing :
                                                     \A l \in existing : k <= l]>>
    /\ argsIndex' = loopIndex + 1
    /\ commands' = Append(commands, ArgAt(loopIndex))
    /\ loopIndex' = loopIndex + 1
    /\ UNCHANGED <<parserVars, files, description, argv, cliPc, returned>>

\* Lines 89-100, 109-112: the token is a valid name and none of its paths
\* exists.
NotFound ==
    /\ cliPc = "loop" /\ loopIndex < Len(argv)
    /\ validCommandName(ArgAt(loopIndex))
    /\ LET path == PathJoin(searchPath, Text(ArgAt(loopIndex)))
       IN  /\ \A k \in 1..3 : ~existsSync(possiblePaths(path)[k])
           /\ searchPath' = path
           /\ IF ~existsSync(path)
              THEN cliPc' = "return" /\ loopIndex' = loopIndex
              ELSE cliPc' = cliPc /\ loopIndex' = loopIndex + 1
    /\ UNCHANGED <<parserVars, files, description, argv, commands, argsIndex,
                   targetPath, returned>>

\* array.slice(from)
sliceFrom(arr, from) == SubSeq(arr, from + 1, Len(arr))

\* Lines 118-122.
PreProcessReturn ==
    /\ cliPc = "return"
    /\ returned' = <<[commands |-> commands,
                      args |-> sliceFrom(argv, argsIndex),
                      path |-> targetPath[1]]>>
    /\ cliPc' = "idle"
    /\ UNCHANGED <<parserVars, files, description, argv, commands, searchPath,
                   argsIndex, targetPath, loopIndex>>

(***************************************************************************)
(* The schemas and the tokens of the checks.                               *)
(***************************************************************************)
ParamA == [name |-> "a", type |-> "String", default |-> Undefined]
ParamB == [name |-> "b", type |-> "Number", default |-> Undefined]
ParamC == [name |-> "c", type |-> "Number", default |-> Num(7)]

RestOptional == [name |-> "rest", type |-> "Number", required |-> FALSE]
RestRequired == [name |-> "rest", type |-> "String", required |-> TRUE]

\* Options all (-a, a toggle), num (-n, takes a value) and out (no flag).
RequiredOptions ==
    <<[name |-> "all", flag |-> "a", type |-> "Boolean", required |-> TRUE,
       toggle |-> TRUE, default |-> Bool(TRUE)],
      [name |-> "num", flag |-> "n", type |-> "Number", required |-> TRUE,
       toggle |-> FALSE, default |-> Undefined],
      [name |-> "out", flag |-> "", type |-> "String", required |-> FALSE,
       toggle |-> FALSE, default |-> Str(<<"d">>)]>>

PlainOptions ==
    <<[name |-> "all", flag |-> "a", type |-> "Boolean", required |-> FALSE,
       toggle |-> TRUE, default |-> Bool(TRUE)],
      [name |-> "num", flag |-> "n", type |-> "Number", required |-> FALSE,
       toggle |-> FALSE, default |-> Num(1)]>>

\* Two required toggles whose names are array indices.
NumberedOptions ==
    <<[name |-> "7", flag |-> "", type |-> "Boolean", required |-> TRUE,
       toggle |-> TRUE, default |-> Undefined],
      [name |-> "5", flag |-> "", type |-> "Boolean", required |-> TRUE,
       toggle |-> TRUE, default |-> Undefined]>>

MakeSchema(params, required, variadic, options) ==
    [paramDefinitions |-> params, requiredParamsNumber |-> required,
     paramsDefinition |-> variadic, optionDefinitions |-> options]

Schemas ==
    {MakeSchema(<<>>, 0, <<>>, <<>>),
     MakeSchema(<<ParamA, ParamB>>, 2, <<>>, <<PlainOptions>>),
     MakeSchema(<<ParamA>>, 1, <<>>, <<RequiredOptions>>),
     MakeSchema(<<ParamA, ParamC>>, 1, <<RestOptional>>, <<PlainOptions>>),
     MakeSchema(<<>>, 0, <<RestRequired>>, <<>>),
     MakeSchema(<<ParamC>>, 0, <<>>, <<<<>>>>),
     MakeSchema(<<ParamA, ParamB, ParamC>>, 2, <<>>, <<>>),
     MakeSchema(<<>>, 0, <<>>, <<NumberedOptions>>),
     MakeSchema(<<ParamC>>, 0, <<RestRequired>>, <<>>)}

FlagSchemas ==
    {MakeSchema(<<>>, 0, <<>>, <<>>),
     MakeSchema(<<ParamA>>, 0, <<>>, <<RequiredOptions>>),
     MakeSchema(<<>>, 0, <<RestOptional>>, <<PlainOptions>>)}

ReuseSchemas ==
    {MakeSchema(<<>>, 0, <<>>, <<>>),
     MakeSchema(<<ParamA>>, 1, <<>>, <<RequiredOptions>>),
     MakeSchema(<<ParamA, ParamC>>, 1, <<RestOptional>>, <<PlainOptions>>)}

Tokens ==
    {<<"x">>, <<"3">>,
     <<"-", "-", "h", "e", "l", "p">>, <<"-", "h">>,
     <<"-", "-", "a", "l", "l">>, <<"-", "-", "n", "u", "m">>,
     <<"-", "a", "n">>, <<"-", "-", "z", "z">>, <<"-", "-", "7">>}

FlagTokens ==
    {<<>>, <<"3">>, <<"-", "3">>, <<"-">>,
     <<"-", "-", "h", "e", "l", "p">>, <<"-", "-", "n", "u", "m">>,
     <<"-", "n">>, <<"-", "a", "n">>, <<"-", "n", "a">>, <<"-", "a", "z">>,
     <<"-", "n", "z">>, <<"-", "z", "n", "a">>,
     <<"-", "h">>, <<"-", "?">>, <<"-", "h", "a">>}

ReuseTokens ==
    {<<"x">>, <<"3">>, <<"-", "a", "n">>, <<"-", "-", "h", "e", "l", "p">>,
     <<"-", "-", "z", "z">>}

\* A parameter, a variadic definition and options of every kind of type.
ParamFlag == [name |-> "flag", type |-> "Boolean", default |-> Undefined]
ParamOdd == [name |-> "odd", type |-> "Other", default |-> Num(7)]

RestFlags == [name |-> "flags", type |-> "Boolean", required |-> FALSE]
RestThrows == [name |-> "rest", type |-> "CustomThrows", required |-> FALSE]

CastOptions ==
    <<[name |-> "on", flag |-> "o", type |-> "Boolean", required |-> FALSE,
       toggle |-> FALSE, default |-> Undefined],
      [name |-> "size", flag |-> "s", type |-> "Number", required |-> FALSE,
       toggle |-> FALSE, default |-> Num(1)],
      [name |-> "tag", flag |-> "t", type |-> "Custom", required |-> FALSE,
       toggle |-> FALSE, default |-> Undefined],
      [name |-> "odd", flag |-> "d", type |-> "Other", required |-> FALSE,
       toggle |-> FALSE, default |-> Str(<<"k">>)],
      [name |-> "bad", flag |-> "b", type |-> "CustomThrows", required |-> FALSE,
       toggle |-> FALSE, default |-> Undefined]>>

CastSchemas ==
    {MakeSchema(<<ParamFlag>>, 0, <<RestFlags>>, <<CastOptions>>),
     MakeSchema(<<ParamOdd, ParamB>>, 0, <<RestThrows>>, <<>>)}

CastTokens ==
    {<<"f", "a", "l", "s", "e">>, <<"F", "a", "L", "S", "E">>,
     <<"0">>, <<"1", "0">>, <<"y", "e", "s">>, <<>>,
     <<"-", "o">>, <<"-", "s">>, <<"-", "d">>, <<"-", "b">>,
     <<"-", "-", "t", "a", "g">>, <<"-", "h">>}

\* A variadic definition that declares no type.
RestRaw == [name |-> "rest", type |-> NoType, required |-> FALSE]

OptionSchemas ==
    {MakeSchema(<<ParamB>>, 0, <<RestOptional>>, <<PlainOptions>>),
     MakeSchema(<<ParamA, ParamC>>, 0, <<>>, <<RequiredOptions>>),
     MakeSchema(<<>>, 0, <<RestRaw>>, <<>>)}

OptionTokens ==
    {<<"3">>, <<"1", "0">>,
     <<"-", "-", "n", "u", "m">>, <<"-", "n">>, <<"-", "a", "n">>,
     <<"-", "-", "a", "l", "l">>, <<"-", "h">>}

\* The token sequences of at most MaxOptionArgs tokens of pool.
OptionTokenSeqs(pool) == UNION {[1..n -> pool] : n \in 0..MaxOptionArgs}

\* Schemas and tokens around the dash: the lone dash, the double dash with
\* nothing after it, a negative number.
DashSchemas ==
    {MakeSchema(<<>>, 0, <<>>, <<>>),
     MakeSchema(<<ParamA>>, 1, <<RestOptional>>, <<PlainOptions>>),
     MakeSchema(<<ParamB>>, 0, <<>>, <<RequiredOptions>>)}

DashTokens ==
    {<<"x">>, <<"3">>, <<"-">>, <<"-", "-">>, <<"-", "3">>,
     <<"-", "a", "n">>, <<"-", "-", "n", "u", "m">>, <<"-", "h">>}

\* File systems: below the root a command file foo.js next to a directory
\* foo with bar.js and default.js in it, and a-b.js; the same with a
\* default.js at the root and a directory dir that holds none; nothing at all.
FileSystems ==
    {{<<"root">>, <<"root", "foo.js">>, <<"root", "foo">>,
      <<"root", "foo", "bar.js">>, <<"root", "foo", "default.js">>,
      <<"root", "a-b.js">>},
     {<<"root">>, <<"root", "default.js">>, <<"root", "dir">>,
      <<"root", "dir", "foo">>, <<"root", "dir", "foo", "default.js">>},
     {}}

\* The first two elements of process.argv.
NodeAndScript == <<<<"n", "o", "d", "e">>, <<"c", "l", "i">>>>

CommandTokens ==
    {<<"f", "o", "o">>, <<"b", "a", "r">>, <<"d", "i", "r">>, <<"a", "-", "b">>,
     <<"a", "-", "-", "b">>, <<"-", "v">>, <<"x", ".", "y">>}

\* The token sequences of at most MaxArgs tokens of pool.
TokenSeqs(pool) == UNION {[1..n -> pool] : n \in 0..MaxArgs}

\* What execute may be handed: process.argv with at most MaxArgs tokens
\* after its first two elements, or fewer than two elements.
Argvs ==
    {NodeAndScript \o tokens : tokens \in TokenSeqs(CommandTokens)}
    \cup {<<>>, <<NodeAndScript[1]>>}

(***************************************************************************)
(* The specifications.                                                     *)
(***************************************************************************)
Init == CLIConstructor({}) /\ \E schema \in Schemas : Constructor(schema)

Steps ==
    \/ Help
    \/ ConsumeToggleOrOption
    \/ ConsumeFlags
    \/ ConsumeArgument
    \/ CheckRequiredParams
    \/ CheckRequiredOptions
    \/ FillDefaults
    \/ CheckExtraArgs
    \/ Return

\* One parse call on a newly constructed parser.
Next ==
    \/ pc = "ready" /\ \E tokens \in TokenSeqs(Tokens) : ParseBegin(tokens)
    \/ Steps

Spec == Init /\ [][Next]_vars

\* The same with schemas and tokens that exercise the flag clusters.
InitFlags == CLIConstructor({}) /\ \E schema \in FlagSchemas : Constructor(schema)

NextFlags ==
    \/ pc = "ready" /\ \E tokens \in TokenSeqs(FlagTokens) : ParseBegin(tokens)
    \/ Steps

SpecFlags == InitFlags /\ [][NextFlags]_vars

\* Call after call on one parser: a call may begin whenever none is running.
InitReuse == CLIConstructor({}) /\ \E schema \in ReuseSchemas : Constructor(schema)

NextReuse ==
    \/ \E tokens \in TokenSeqs(ReuseTokens) : ParseBegin(tokens)
    \/ Steps

SpecReuse == InitReuse /\ [][NextReuse]_vars

\* One call as it runs: parse is synchronous code with no wait in it, so a
\* call that has begun takes its next step.
SpecLive == InitReuse /\ [][Next]_vars /\ WF_vars(Steps)

\* One call with options given more than once and between positional tokens.
InitOptions == CLIConstructor({}) /\ \E schema \in OptionSchemas : Constructor(schema)

NextOptions ==
    \/ pc = "ready" /\ \E tokens \in OptionTokenSeqs(OptionTokens) : ParseBegin(tokens)
    \/ Steps

SpecOptions == InitOptions /\ [][NextOptions]_vars

\* One call with tokens around the dash.
InitDash == CLIConstructor({}) /\ \E schema \in DashSchemas : Constructor(schema)

NextDash ==
    \/ pc = "ready" /\ \E tokens \in TokenSeqs(DashTokens) : ParseBegin(tokens)
    \/ Steps

SpecDash == InitDash /\ [][NextDash]_vars

\* The CLI: one call of preProcessArguments, with no parser at work.
InitCLI ==
    /\ \E fs \in FileSystems : CLIConstructor(fs)
    /\ Constructor(MakeSchema(<<>>, 0, <<>>, <<>>))

NextCLI ==
    \/ returned = <<>> /\ \E tokens \in Argvs : PreProcessBegin(tokens)
    \/ LoopEnd
    \/ BreakInvalid
    \/ Found
    \/ NotFound
    \/ PreProcessReturn

SpecCLI == InitCLI /\ [][NextCLI]_vars

\* One call on a parser whose schema declares every kind of type.
InitCast == CLIConstructor({}) /\ \E schema \in CastSchemas : Constructor(schema)

NextCast ==
    \/ pc = "ready" /\ \E tokens \in TokenSeqs(CastTokens) : ParseBegin(tokens)
    \/ Steps

SpecCast == InitCast /\ [][NextCast]_vars

(***************************************************************************)
(* What the claims speak of.                                               *)
(***************************************************************************)
\* The caller's token sequence and the declared ParamDefinitions.
Argv == arrays["argv"]
Declared == arrays["paramDefinitions"]

\* The tokens the current call has not taken yet.
Remaining == arrays[args]

Ended == result # <<>> \/ error # <<>>

\* The call went through the whole token loop and entered the validation stage.
Validating == pc \in {"requiredParams", "requiredOptions", "defaults", "extraArgs", "return"}

\* The number of positional values the loop collected for declared parameters.
Collected == Len(Declared) - Len(arrays[pendingParamDefinitions])

\* The required options the loop has not seen, in declaration order.
Pending == IF requiredOptionMap = <<>> THEN <<>> ELSE requiredOptionMap[1]

HelpRequested == result # <<>> /\ "help" \in DOMAIN result[1] /\ result[1].help = TRUE

\* parse returned a result that does not signal help.
Parsed == result # <<>> /\ "help" \notin DOMAIN result[1]

Message == error[1].message

LongHelp == <<"-", "-", "h", "e", "l", "p">>

HasLongHelp == \E i \in 1..Len(Argv) : Argv[i] = LongHelp

FirstLongHelp == CHOOSE i \in 1..Len(Argv) : Argv[i] = LongHelp /\ \A j \in 1..(i - 1) : Argv[j] # LongHelp

Quoted(name) == Backtick \o name \o Backtick

RECURSIVE CommaList(_)
\* The names, each between backticks, with ", " between them.
CommaList(names) ==
    IF names = <<>> THEN ""
    ELSE Quoted(names[1]) \o (IF Len(names) > 1 THEN ", " ELSE "") \o CommaList(Tail(names))

OptionNames ==
    IF optionDefinitions = <<>> THEN {}
    ELSE {optionDefinitions[1][i].name : i \in 1..Len(optionDefinitions[1])}

ValueInsteadMessage(token, name) ==
    "Expecting a value instead of an option or toggle \"" \o token \o "\" for option " \o Quoted(name)

(***************************************************************************)
(* C1.                                                                     *)
(***************************************************************************)
\* C1, as stated: whenever the token sequence holds --help, the call ends with
\* help requested and no usage error, whatever comes before --help.
C1_HelpWhateverPrecedes ==
    (Ended /\ HasLongHelp) => (HelpRequested /\ error = <<>>)

\* C1, amended: with --help in the token sequence the validation stage never
\* runs and no parsed result is returned; the call ends with help requested,
\* unless a token before the first --help raises an error in the token loop,
\* or the token before it names an option that takes --help as its value and
\* rejects it.
C1_HelpUnlessEarlierError ==
    HasLongHelp =>
        /\ pc = "loop"
        /\ Ended =>
              IF error = <<>> THEN HelpRequested /\ result = <<[help |-> TRUE]>>
              ELSE LET taken == Len(Argv) - Len(Remaining)
                   IN  /\ result = <<>>
                       /\ taken <= FirstLongHelp
                       /\ taken = FirstLongHelp =>
                             Message \in {ValueInsteadMessage("--help", n) : n \in OptionNames}

\* --help between other tokens, with a required option and a required
\* parameter still missing: help is requested.
C1_Witness ==
    /\ HelpRequested
    /\ Len(Argv) = 3 /\ Argv[2] = LongHelp /\ Argv[1] # LongHelp
    /\ Pending # <<>>
    /\ Len(commandArgs) < requiredParamsNumber

(***************************************************************************)
(* The token sequence read against the option definitions alone: which     *)
(* tokens name an option, which take the next token as a value, and which  *)
(* are positional.  It is meant for sequences the token loop takes to the  *)
(* end, where no value token begins with a dash.                           *)
(***************************************************************************)
OptionList == IF optionDefinitions = <<>> THEN <<>> ELSE optionDefinitions[1]

\* The token names the option: --name, or a cluster that holds its flag.
Names(token, d) ==
    \/ /\ Len(token) >= 2 /\ token[1] = "-" /\ token[2] = "-"
       /\ Text(SubSeq(token, 3, Len(token))) = d.name
    \/ /\ Len(token) >= 2 /\ token[1] = "-" /\ token[2] # "-"
       /\ d.flag # ""
       /\ \E i \in 2..Len(token) : token[i] = d.flag

\* The token is followed by a value: --name of an option that is no toggle,
\* or a cluster whose last flag is one.
TakesValue(token) ==
    \E i \in 1..Len(OptionList) :
        LET d == OptionList[i]
        IN  /\ ~d.toggle
            /\ \/ /\ Len(token) >= 2 /\ token[1] = "-" /\ token[2] = "-"
                  /\ Text(SubSeq(token, 3, Len(token))) = d.name
               \/ /\ Len(token) >= 2 /\ token[1] = "-" /\ token[2] # "-"
                  /\ d.flag # "" /\ token[Len(token)] = d.flag

RECURSIVE Positionals(_)
\* The positional tokens of a token sequence, in order.
Positionals(tokens) ==
    IF tokens = <<>> THEN <<>>
    ELSE LET t == Head(tokens)
         IN  IF Len(t) >= 1 /\ t[1] = "-"
             THEN IF TakesValue(t) /\ Len(tokens) >= 2
                  THEN Positionals(Tail(Tail(tokens)))
                  ELSE Positionals(Tail(tokens))
             ELSE <<t>> \o Positionals(Tail(tokens))

\* Some token of the sequence names the option.
Given(d) == \E i \in 1..Len(Argv) : Names(Argv[i], d)

RECURSIVE NamesOf(_)
NamesOf(defs) == IF defs = <<>> THEN <<>> ELSE <<Head(defs).name>> \o NamesOf(Tail(defs))

\* The required options no token names, in declaration order.
NotGiven == NamesOf(SelectSeq(OptionList, LAMBDA d : d.required /\ ~Given(d)))

\* The token sequence satisfies the required parameters and options.
Satisfied == Len(Positionals(Argv)) >= requiredParamsNumber /\ NotGiven = <<>>

RECURSIVE ParamNames(_, _, _)
\* The names of the declared parameters at positions from..to.
ParamNames(defs, from, to) ==
    IF from > to \/ from > Len(defs) THEN <<>>
    ELSE <<defs[from].name>> \o ParamNames(defs, from + 1, to)

ArgumentsMessage(from, to) ==
    "Expecting argument(s) " \o CommaList(ParamNames(Declared, from, to))

MissingOptionsMessage(names) == "Missing required option(s) " \o CommaList(names)

AtMostMessage(n, m) ==
    "Expecting " \o ToString(n) \o " parameter(s) at most but got " \o ToString(m) \o " instead"

VariadicMessage(name) ==
    "Expecting at least one element for variadic parameters " \o Quoted(name)

(***************************************************************************)
(* C2.                                                                     *)
(***************************************************************************)
\* C2: once the token loop has ended without an error the checks run in the
\* order required-positional, required-option, default filling,
\* excess-positional, variadic-required; the first one that fails throws its
\* own error, nothing after it runs (the defaults are not filled in after a
\* failure of the first two) and no result is returned.
C2_FirstFailingCheckDecides ==
    /\ pc \in {"requiredOptions", "defaults", "extraArgs", "return"} =>
          Collected >= requiredParamsNumber
    /\ pc \in {"defaults", "extraArgs", "return"} => Pending = <<>>
    /\ pc \in {"extraArgs", "return"} => Len(commandArgs) = Len(Declared)
    /\ pc = "return" =>
          /\ commandExtraArgs # <<>> => paramsDefinition # <<>>
          /\ commandExtraArgs = <<>> =>
                (paramsDefinition = <<>> \/ ~paramsDefinition[1].required)
    /\ (Validating /\ Ended) =>
          IF Collected < requiredParamsNumber
          THEN /\ pc = "requiredParams" /\ result = <<>> /\ error # <<>>
               /\ Message = ArgumentsMessage(Collected + 1, requiredParamsNumber)
               /\ Len(commandArgs) = Collected
          ELSE IF Pending # <<>>
          THEN /\ pc = "requiredOptions" /\ result = <<>> /\ error # <<>>
               /\ Message = MissingOptionsMessage(Pending)
               /\ Len(commandArgs) = Collected
          ELSE IF commandExtraArgs # <<>> /\ paramsDefinition = <<>>
          THEN /\ pc = "extraArgs" /\ result = <<>> /\ error # <<>>
               /\ Message = AtMostMessage(Len(Declared),
                                          Len(Declared) + Len(commandExtraArgs))
          ELSE IF commandExtraArgs = <<>> /\ paramsDefinition # <<>>
                  /\ paramsDefinition[1].required
          THEN /\ pc = "extraArgs" /\ result = <<>> /\ error # <<>>
               /\ Message = VariadicMessage(paramsDefinition[1].name)
          ELSE pc = "return" /\ Parsed /\ error = <<>>

\* A required option is missing and there is a positional token too many with
\* no variadic definition: the call ended with the missing-option error.
C2_Witness ==
    /\ error # <<>> /\ pc = "requiredOptions"
    /\ Pending # <<>>
    /\ commandExtraArgs # <<>> /\ paramsDefinition = <<>>

(***************************************************************************)
(* C3.                                                                     *)
(***************************************************************************)
\* C3, as stated: for a token sequence that satisfies the required parameters
\* and options, the result parse returns has a positional list as long as
\* the declared ParamDefinitions, and no extra values without a variadic
\* definition.
C3_EveryResultHasAllPositionals ==
    (result # <<>> /\ Satisfied) =>
        /\ "args" \in DOMAIN result[1]
        /\ Len(result[1].args) = Len(Declared)
        /\ paramsDefinition = <<>> => result[1].extraArgs = <<>>

\* C3, amended: the same of every result that does not signal help (a help
\* result carries no lists).
C3_ParsedResultHasAllPositionals ==
    (Parsed /\ Satisfied) =>
        /\ Len(result[1].args) = Len(Declared)
        /\ paramsDefinition = <<>> => result[1].extraArgs = <<>>

\* A parsed result whose last positional value is a default.
C3_Witness ==
    /\ Parsed /\ Satisfied
    /\ Collected = 1 /\ Len(Declared) = 2 /\ Len(result[1].args) = 2

(***************************************************************************)
(* C4.                                                                     *)
(***************************************************************************)
\* The names as Object.keys lists them when they are the keys of an object:
\* the array indices in ascending order, then the others in their order.
KeysOrder(names) ==
    SelectSeq(<<"0", "1", "2", "3", "4", "5", "6", "7", "8", "9">>,
              LAMBDA d : \E i \in 1..Len(names) : names[i] = d)
    \o SelectSeq(names, LAMBDA n : n \notin Digits)

\* C4, as stated: a call never ends with a result while a required option was
\* given by no token; it ends with a usage error, and when the token loop
\* has ended and the required-positional check passes the error is Missing
\* required option(s) with the required options not given, in declaration
\* order.
C4_NoResultWhileRequiredMissing ==
    (Ended /\ NotGiven # <<>>) =>
        /\ result = <<>> /\ error # <<>>
        /\ (Validating /\ Len(Positionals(Argv)) >= requiredParamsNumber) =>
              Message = MissingOptionsMessage(NotGiven)

\* C4, amended: while a required option was given by no token, a call never
\* ends with a parsed result: it ends with help requested (a help token was
\* reached) or with a usage error, and when the token loop has ended and the
\* required-positional check passes that error is Missing required option(s)
\* with exactly the required options not given, in the order of Object.keys:
\* declaration order, but for names that are array indices, which come
\* first.  That error is raised in no other case.
C4_NoParsedResultWhileRequiredMissing ==
    /\ (Ended /\ NotGiven # <<>>) =>
          /\ ~Parsed
          /\ HelpRequested \/ (error # <<>> /\ result = <<>>)
          /\ (Validating /\ Len(Positionals(Argv)) >= requiredParamsNumber) =>
                /\ pc = "requiredOptions" /\ error # <<>>
                /\ Message = MissingOptionsMessage(KeysOrder(NotGiven))
    /\ (error # <<>> /\ pc = "requiredOptions") => NotGiven # <<>>

\* Of the required options all and num only all was given.
C4_Witness ==
    /\ error # <<>> /\ pc = "requiredOptions"
    /\ NotGiven = <<"num">>
    /\ \E i \in 1..Len(OptionList) : OptionList[i].name = "all" /\ OptionList[i].required

(***************************************************************************)
(* C5.                                                                     *)
(***************************************************************************)
Min(a, b) == IF a < b THEN a ELSE b

\* The number of positional values the token sequence gives to declared
\* parameters.
PositionalsGiven == Min(Len(Positionals(Argv)), Len(Declared))

\* C5: when the token loop ends with k positional values and k is less than
\* the required count R, the call throws Expecting argument(s) with the names
\* of the parameters k+1..R; with k >= R, and in the token loop, that error
\* is not thrown.
C5_MissingArgumentsNamed ==
    /\ Validating =>
          /\ Collected = PositionalsGiven
          /\ IF PositionalsGiven < requiredParamsNumber
             THEN /\ pc = "requiredParams" /\ error # <<>> /\ result = <<>>
                  /\ Message = ArgumentsMessage(PositionalsGiven + 1, requiredParamsNumber)
             ELSE pc # "requiredParams"
    /\ (error # <<>> /\ (pc = "loop" \/ PositionalsGiven >= requiredParamsNumber)) =>
          Message \notin {ArgumentsMessage(i, j) : i \in 1..(Len(Declared) + 1),
                                                   j \in 0..Len(Declared)}

\* Two required parameters, one given: the error names the second.
C5_Witness ==
    /\ error # <<>> /\ pc = "requiredParams"
    /\ PositionalsGiven = 1 /\ requiredParamsNumber = 2
    /\ Message = "Expecting argument(s) " \o Quoted("b")

(***************************************************************************)
(* C6.                                                                     *)
(***************************************************************************)
\* C6: when the token loop has collected more positional tokens than there
\* are declared parameters and the earlier checks pass, then with no variadic
\* definition the call throws Expecting N parameter(s) at most but got M
\* instead, N the declared number and M the number of positional tokens, and
\* with a variadic definition it returns the extra tokens, cast.  The error
\* is thrown in no other case.
C6_ExcessPositionals ==
    LET n == Len(Declared)
        given == Positionals(Argv)
        p == Len(given)
    IN  /\ (Validating /\ Ended /\ p > n /\ NotGiven = <<>>) =>
              IF paramsDefinition = <<>>
              THEN /\ error # <<>> /\ result = <<>> /\ pc = "extraArgs"
                   /\ Message = AtMostMessage(n, p)
              ELSE /\ Parsed /\ error = <<>>
                   /\ result[1].extraArgs =
                         [i \in 1..(p - n) |->
                             castArgument(given[n + i], paramsDefinition[1].type)]
        /\ (error # <<>> /\ ~(Validating /\ p > n /\ paramsDefinition = <<>>)) =>
              Message \notin {AtMostMessage(i, j) : i \in 0..n, j \in 0..(n + MaxArgs + 1)}

\* Two declared parameters and three positional tokens.
C6_Witness ==
    /\ error # <<>> /\ pc = "extraArgs"
    /\ Len(Declared) = 2 /\ Len(commandExtraArgs) = 1
    /\ Message = "Expecting 2 parameter(s) at most but got 3 instead"

(***************************************************************************)
(* C7.                                                                     *)
(***************************************************************************)
\* The declared options with flag c.
Flagged(c) == {i \in 1..Len(OptionList) : OptionList[i].flag = c}

OptionOfFlag(c) == OptionList[CHOOSE i \in Flagged(c) : TRUE]

\* A single-dash token that is no help request: a cluster of flags.
IsCluster(token) ==
    /\ Len(token) >= 1 /\ token[1] = "-"
    /\ ~(Len(token) >= 2 /\ token[2] = "-")
    /\ token \notin {<<"-", "h">>, <<"-", "?">>}

\* The positions of a cluster at which a flag is unknown, or names an option
\* that is no toggle without being last.
Offenders(flags) ==
    {i \in 1..Len(flags) :
        \/ Flagged(flags[i]) = {}
        \/ ~OptionOfFlag(flags[i]).toggle /\ i < Len(flags)}

FirstOffender(flags) ==
    CHOOSE i \in Offenders(flags) : \A j \in Offenders(flags) : i <= j

\* The last flag of the cluster names an option that takes a value.
LastTakesValue(flags) ==
    flags # <<>> /\ Flagged(flags[Len(flags)]) # {}
    /\ ~OptionOfFlag(flags[Len(flags)]).toggle

\* The token loop is about to take a token.
AtToken == Running /\ pc = "loop" /\ Remaining # <<>>

\* C7: the step that takes a flag cluster.  The first position from the left
\* that is unknown, or no toggle and not last, decides the error: Unknown
\* option flag for the one, Only the last flag ... for the other.  With no
\* such position every toggle of the cluster is true afterwards; a last flag
\* that is no toggle takes the following token as its value, and otherwise
\* the loop goes on with the following token.
C7_ClusterLeftToRight ==
    [][(AtToken /\ IsCluster(Head(Remaining))) =>
          LET flags == Tail(Head(Remaining))
          IN  IF Offenders(flags) # {}
              THEN LET flag == flags[FirstOffender(flags)]
                   IN  /\ result' = <<>> /\ error' # <<>>
                       /\ error'[1].message =
                             IF Flagged(flag) = {}
                             THEN "Unknown option flag \"" \o flag \o "\""
                             ELSE "Only the last flag in a sequence can refer to an option instead of a toggle"
              ELSE /\ \A i \in 1..Len(flags) :
                         OptionOfFlag(flags[i]).toggle =>
                             commandOptions'[1][OptionOfFlag(flags[i]).name] = Bool(TRUE)
                   /\ IF LastTakesValue(flags)
                      THEN IF Len(Remaining) >= 2 /\ ~IsDash(Remaining[2])
                           THEN /\ error' = <<>>
                                /\ arrays'[args] = Tail(Tail(Remaining))
                                /\ commandOptions'[1][OptionOfFlag(flags[Len(flags)]).name] =
                                      castArgument(Remaining[2],
                                                   OptionOfFlag(flags[Len(flags)]).type)
                           ELSE error' # <<>>
                      ELSE /\ error' = <<>> /\ result' = <<>>
                           /\ arrays'[args] = Tail(Remaining)
      ]_vars

\* The cluster -nz, n an option that takes a value and z unknown: the error
\* is the one of n, the first from the left.
C7_Witness ==
    /\ error # <<>> /\ pc = "loop"
    /\ Message = "Only the last flag in a sequence can refer to an option instead of a toggle"
    /\ Len(Argv) >= 1 /\ Argv[1] = <<"-", "n", "z">>
    /\ Len(Remaining) = Len(Argv) - 1

(***************************************************************************)
(* C8.                                                                     *)
(***************************************************************************)
\* The token is --name of a declared option that is no toggle.
IsLongValueOption(token) ==
    /\ Len(token) >= 2 /\ token[1] = "-" /\ token[2] = "-"
    /\ token # LongHelp
    /\ \E i \in 1..Len(OptionList) :
          OptionList[i].name = Text(SubSeq(token, 3, Len(token)))
          /\ ~OptionList[i].toggle

\* The token is a cluster that is in order and whose last flag takes a value.
IsClusterValueOption(token) ==
    /\ IsCluster(token)
    /\ Offenders(Tail(token)) = {}
    /\ LastTakesValue(Tail(token))

\* The option whose value follows the token.
ValueOption(token) ==
    IF IsCluster(token) THEN OptionOfFlag(token[Len(token)])
    ELSE OptionList[CHOOSE i \in 1..Len(OptionList) :
                        OptionList[i].name = Text(SubSeq(token, 3, Len(token)))]

\* C8: the step that takes a token naming an option that is no toggle.  With
\* no following token it throws Expecting value for option; with a following
\* token that begins with a dash it throws Expecting a value instead of an
\* option or toggle; otherwise the following token is taken with it, cast
\* into the option, and changes nothing else: no positional or extra value,
\* no other option, no help.
C8_OptionValue ==
    [][(AtToken /\ (IsLongValueOption(Head(Remaining))
                    \/ IsClusterValueOption(Head(Remaining)))) =>
          LET token == Head(Remaining)
              d == ValueOption(token)
          IN  /\ result' = <<>>
              /\ commandArgs' = commandArgs
              /\ commandExtraArgs' = commandExtraArgs
              /\ IF Len(Remaining) = 1
                 THEN error' = <<[message |-> "Expecting value for option " \o Quoted(d.name)]>>
                 ELSE IF IsDash(Remaining[2])
                 THEN error' = <<[message |-> ValueInsteadMessage(Text(Remaining[2]), d.name)]>>
                 ELSE /\ error' = <<>>
                      /\ arrays'[args] = Tail(Tail(Remaining))
                      /\ commandOptions'[1][d.name] = castArgument(Remaining[2], d.type)
                      /\ \A i \in 1..Len(OptionList) :
                            ~Names(token, OptionList[i]) =>
                                commandOptions'[1][OptionList[i].name] =
                                    commandOptions[1][OptionList[i].name]
      ]_vars

\* The negative number -3 after --num or -n is rejected as a value.
C8_Witness ==
    /\ error # <<>> /\ pc = "loop"
    /\ Message = ValueInsteadMessage("-3", "num")

(***************************************************************************)
(* C9.                                                                     *)
(***************************************************************************)
\* C9: every call on the parser, whatever calls came before it, ends as the
\* same call ends on a parser newly constructed from the same schema.
C9_CallsAreIndependent ==
    Ended => [result |-> result, error |-> error] = FreshParse(Argv)

\* A later call on a used parser that ends with both required options
\* missing.
C9_Witness ==
    /\ used /\ error # <<>> /\ pc = "requiredOptions"
    /\ Pending = <<"all", "num">>

(***************************************************************************)
(* C10.                                                                    *)
(***************************************************************************)
\* C10: no step changes the parser's option-name map, its flag map or the
\* schema's definitions, and no step of a running call changes the caller's
\* token array.
C10_ParseLeavesParserAndTokens ==
    [][/\ optionDefinitionMap' = optionDefinitionMap
       /\ optionFlagMapping' = optionFlagMapping
       /\ optionDefinitions' = optionDefinitions
       /\ paramsDefinition' = paramsDefinition
       /\ arrays'["paramDefinitions"] = arrays["paramDefinitions"]
       /\ Running => arrays'["argv"] = arrays["argv"]
      ]_vars

\* A later call has taken all its three tokens, one of them for a declared
\* parameter, and returned.
C10_Witness ==
    /\ used /\ Parsed
    /\ Len(Argv) = 3 /\ Remaining = <<>>
    /\ Len(arrays[pendingParamDefinitions]) < Len(Declared)

(***************************************************************************)
(* C11.                                                                    *)
(***************************************************************************)
\* The token is the word false, in any case of its letters.
IsFalseWord(token) ==
    /\ Len(token) = 5
    /\ token[1] \in {"f", "F"} /\ token[2] \in {"a", "A"} /\ token[3] \in {"l", "L"}
    /\ token[4] \in {"s", "S"} /\ token[5] \in {"e", "E"}

\* The token coerces to a number: of the tokens here, the empty one (0) and
\* the ones of decimal digits.
CoercesToNumber(token) == \A i \in 1..Len(token) : token[i] \in Digits

CoercesToZero(token) == \A i \in 1..Len(token) : token[i] = "0"

\* The Boolean the claim gives a token.
BooleanOf(token) ==
    IF IsFalseWord(token) THEN FALSE
    ELSE IF CoercesToNumber(token) THEN ~CoercesToZero(token)
    ELSE TRUE

\* The token loop is about to take a token that names an option with a value
\* token after it that is accepted.
AtOptionValue ==
    /\ AtToken
    /\ IsLongValueOption(Head(Remaining)) \/ IsClusterValueOption(Head(Remaining))
    /\ Len(Remaining) >= 2 /\ ~IsDash(Remaining[2])

\* The token loop is about to take a positional token: the type it is cast
\* with, or <<>> when it is kept as it is.
AtPositional == AtToken /\ ~IsDash(Head(Remaining))

PositionalType ==
    IF arrays[pendingParamDefinitions] # <<>>
    THEN <<Head(arrays[pendingParamDefinitions]).type>>
    ELSE IF paramsDefinition # <<>> THEN <<paramsDefinition[1].type>>
    ELSE <<>>

\* The value the step has stored for the positional token it took.
StoredPositional(before, after, value) == after = Append(before, value)

\* C11: a token cast to Boolean, as the value of an option, of a declared
\* parameter or of the variadic definition, gives false for the word false
\* in any case of its letters; otherwise false for a token that coerces to
\* the number zero and true for one that coerces to another number; and
\* true for a token that coerces to no number.
C11_BooleanCast ==
    [][/\ (AtOptionValue /\ ValueOption(Head(Remaining)).type = "Boolean") =>
             /\ error' = <<>>
             /\ commandOptions'[1][ValueOption(Head(Remaining)).name] =
                   Bool(BooleanOf(Remaining[2]))
       /\ (AtPositional /\ PositionalType = <<"Boolean">>) =>
             /\ error' = <<>>
             /\ IF arrays[pendingParamDefinitions] # <<>>
                THEN StoredPositional(commandArgs, commandArgs',
                                      Bool(BooleanOf(Head(Remaining))))
                ELSE StoredPositional(commandExtraArgs, commandExtraArgs',
                                      Bool(BooleanOf(Head(Remaining))))
      ]_vars

\* -o FaLSE yes 0: the option is false, the parameter true and the extra value
\* false.
C11_Witness ==
    /\ Parsed
    /\ Argv = <<<<"-", "o">>, <<"F", "a", "L", "S", "E">>, <<"y", "e", "s">>>>
    /\ result[1].options[1]["on"] = Bool(FALSE)
    /\ result[1].args = <<Bool(TRUE)>>

(***************************************************************************)
(* C12.                                                                    *)
(***************************************************************************)
\* The types whose values the type's own cast makes.
CastableTypes == {"Custom", "CustomThrows"}

\* The step stores value for the positional token it takes.
PositionalStored(value) ==
    IF arrays[pendingParamDefinitions] # <<>>
    THEN /\ StoredPositional(commandArgs, commandArgs', value)
         /\ commandExtraArgs' = commandExtraArgs
    ELSE /\ StoredPositional(commandExtraArgs, commandExtraArgs', value)
         /\ commandArgs' = commandArgs

\* What the claim says of the value a token cast with the type gives.
CastAsClaimed(token, type, value) ==
    /\ (type = "Number" /\ ~CoercesToNumber(token)) => value = NaN
    /\ type \notin {"String", "Number", "Boolean"} \cup CastableTypes => value = Undefined

\* The error of the state is a UsageError.
IsUsageError(err) == err # <<>> /\ DOMAIN err[1] = {"message"}

\* C12, as stated: every error a call ends with is a usage error; a step
\* that casts a token, whatever the declared type, raises nothing and the
\* loop goes on with the token after it; a token that is no number gives NaN
\* with type Number, and a type that is neither String, Number, Boolean nor
\* castable gives undefined.
C12_CastingNeverRaises ==
    [][/\ error' # <<>> => IsUsageError(error')
       /\ AtOptionValue =>
             LET d == ValueOption(Head(Remaining))
             IN  /\ error' = <<>> /\ result' = <<>>
                 /\ arrays'[args] = Tail(Tail(Remaining))
                 /\ CastAsClaimed(Remaining[2], d.type, commandOptions'[1][d.name])
       /\ (AtPositional /\ PositionalType # <<>>) =>
             /\ error' = <<>> /\ result' = <<>>
             /\ arrays'[args] = Tail(Remaining)
             /\ \E value \in {NaN, Undefined, Cast(Head(Remaining)), Str(Head(Remaining)),
                              Bool(TRUE), Bool(FALSE), ToNumber(Head(Remaining))} :
                   /\ PositionalStored(value)
                   /\ CastAsClaimed(Head(Remaining), PositionalType[1], value)
      ]_vars

\* C12, amended: the same for every type but a castable one.  With a
\* castable type the step stores what the type's cast returns and the loop
\* goes on, or, when that cast throws, the call ends with the error it threw,
\* which is no usage error, and the step stores nothing.  Every other error a
\* call ends with is a usage error.
C12_OnlyCustomCastRaises ==
    [][/\ (error = <<>> /\ error' # <<>> /\ ~IsUsageError(error')) =>
             \/ AtOptionValue /\ ValueOption(Head(Remaining)).type = "CustomThrows"
                /\ error' = <<[thrown |-> Remaining[2]]>>
             \/ AtPositional /\ PositionalType = <<"CustomThrows">>
                /\ error' = <<[thrown |-> Head(Remaining)]>>
       /\ AtOptionValue =>
             LET d == ValueOption(Head(Remaining))
             IN  IF d.type = "CustomThrows"
                 THEN /\ error' # <<>> /\ ~IsUsageError(error') /\ result' = <<>>
                      /\ commandOptions' = commandOptions
                 ELSE /\ error' = <<>> /\ result' = <<>>
                      /\ arrays'[args] = Tail(Tail(Remaining))
                      /\ CastAsClaimed(Remaining[2], d.type, commandOptions'[1][d.name])
                      /\ d.type = "Custom" =>
                            commandOptions'[1][d.name] = Cast(Remaining[2])
       /\ (AtPositional /\ PositionalType # <<>>) =>
             IF PositionalType = <<"CustomThrows">>
             THEN /\ error' # <<>> /\ ~IsUsageError(error') /\ result' = <<>>
                  /\ commandArgs' = commandArgs
                  /\ commandExtraArgs' = commandExtraArgs
             ELSE /\ error' = <<>> /\ result' = <<>>
                  /\ arrays'[args] = Tail(Remaining)
                  /\ \E value \in {NaN, Undefined, Cast(Head(Remaining)),
                                   Str(Head(Remaining)), Bool(TRUE), Bool(FALSE),
                                   ToNumber(Head(Remaining))} :
                        /\ PositionalStored(value)
                        /\ CastAsClaimed(Head(Remaining), PositionalType[1], value)
                        /\ PositionalType = <<"Custom">> => value = Cast(Head(Remaining))
      ]_vars

\* yes yes for a parameter of a type that is not castable and one of type
\* Number: the call returns undefined and NaN.
C12_Witness ==
    /\ Parsed
    /\ Argv = <<<<"y", "e", "s">>, <<"y", "e", "s">>>>
    /\ result[1].args = <<Undefined, NaN>>

(***************************************************************************)
(* C13.                                                                    *)
(***************************************************************************)
\* The schema has a variadic definition that is marked required.
VariadicRequired == paramsDefinition # <<>> /\ paramsDefinition[1].required

\* C13: when the token loop has ended with no more positional tokens than
\* declared parameters and the earlier checks pass, then with a variadic
\* definition marked required the call throws Expecting at least one element
\* for variadic parameters with its name, and with none, or one not marked
\* required, it returns a result whose extra-value list is empty.  The error
\* is thrown in no other case.
C13_VariadicRequired ==
    LET p == Len(Positionals(Argv))
        passed == p >= requiredParamsNumber /\ NotGiven = <<>>
    IN  /\ (Validating /\ Ended /\ passed /\ p <= Len(Declared)) =>
              IF VariadicRequired
              THEN /\ error # <<>> /\ result = <<>> /\ pc = "extraArgs"
                   /\ Message = VariadicMessage(paramsDefinition[1].name)
              ELSE /\ Parsed /\ error = <<>>
                   /\ result[1].extraArgs = <<>>
        /\ (error # <<>>
            /\ ~(Validating /\ passed /\ p <= Len(Declared) /\ VariadicRequired)) =>
              Message \notin {VariadicMessage(n) : n \in {"rest", "flags"}}

\* A required variadic definition after a declared parameter, and one
\* positional token: the parameter takes it and no extra value is left.
C13_Witness ==
    /\ error # <<>> /\ pc = "extraArgs"
    /\ VariadicRequired /\ Len(Declared) = 1 /\ Collected = 1
    /\ Message = "Expecting at least one element for variadic parameters " \o Quoted("rest")

(***************************************************************************)
(* C14.                                                                    *)
(***************************************************************************)
\* The last token of the sequence that names the option.
LastOccurrence(d) ==
    CHOOSE i \in 1..Len(Argv) :
        Names(Argv[i], d) /\ \A j \in (i + 1)..Len(Argv) : ~Names(Argv[j], d)

\* C14: in a result that does not signal help, of a schema that declares
\* options, the options map has the declared names as its keys; a toggle is
\* true when some token names it and false when none does, whatever its
\* default; an option that is no toggle holds the cast of the token after the
\* last token that names it, or its default when none does.
C14_OptionsMap ==
    (Parsed /\ optionDefinitions # <<>>) =>
        LET options == result[1].options[1]
        IN  /\ DOMAIN options = OptionNames
            /\ \A i \in 1..Len(OptionList) :
                  LET d == OptionList[i]
                  IN  options[d.name] =
                         IF d.toggle THEN Bool(Given(d))
                         ELSE IF Given(d)
                         THEN castArgument(Argv[LastOccurrence(d) + 1], d.type)
                         ELSE d.default

\* A toggle whose default is true, named by no token, is false in the
\* result, next to an option given twice that holds its second value.
C14_Witness ==
    /\ Parsed /\ optionDefinitions # <<>>
    /\ \E i \in 1..Len(OptionList) :
          /\ OptionList[i].toggle /\ OptionList[i].default = Bool(TRUE)
          /\ result[1].options[1][OptionList[i].name] = Bool(FALSE)
    /\ Argv = <<<<"-", "-", "n", "u", "m">>, <<"3">>, <<"-", "n">>, <<"1", "0">>>>
    /\ result[1].options[1]["num"] = Num(10)

(***************************************************************************)
(* C15.                                                                    *)
(***************************************************************************)
HelpTokens == {<<"-", "h">>, <<"-", "?">>, LongHelp}

\* C15: the step that takes a token that is -h, -? or --help returns the
\* result that signals help and nothing else: it raises nothing, takes no
\* token after it, runs no check and leaves out of the result what was
\* collected; and once help is returned the call takes no further step.
C15_HelpStopsAtOnce ==
    [][/\ (AtToken /\ Head(Remaining) \in HelpTokens) =>
             /\ result' = <<[help |-> TRUE]>>
             /\ error' = <<>>
             /\ pc' = "loop"
             /\ arrays'[args] = Tail(Remaining)
       /\ ~HelpRequested
      ]_vars

\* -? before a cluster with an unknown flag and an option with no value:
\* help is returned and the two tokens after it are left untaken.
C15_Witness ==
    /\ HelpRequested /\ result[1] = [help |-> TRUE]
    /\ Argv = <<<<"-", "?">>, <<"-", "a", "z">>, <<"-", "-", "n", "u", "m">>>>
    /\ Remaining = Tail(Argv)

(***************************************************************************)
(* C16.                                                                    *)
(***************************************************************************)
\* The positional values of a result, by the claim: the casts of the first
\* positional tokens, then the defaults of the definitions left.
PositionalValues ==
    LET given == Positionals(Argv)
        k == Min(Len(given), Len(Declared))
    IN  [i \in 1..Len(Declared) |->
            IF i <= k THEN castArgument(given[i], Declared[i].type)
            ELSE Declared[i].default]

\* The positional tokens after the ones the declared parameters take.
ExtraTokens ==
    LET given == Positionals(Argv)
    IN  SubSeq(given, Min(Len(given), Len(Declared)) + 1, Len(given))

\* C16, as stated: in a result that does not signal help the positional
\* values are the casts of the first min(p, n) positional tokens followed by
\* the defaults of the other definitions, and the extra values are the
\* positional tokens left, in input order, wherever option tokens stand
\* between them.
C16_PositionalOrderRawExtras ==
    Parsed =>
        /\ result[1].args = PositionalValues
        /\ result[1].extraArgs = [i \in 1..Len(ExtraTokens) |-> Str(ExtraTokens[i])]

\* C16, amended: the same, with each extra value the cast of its token with
\* the variadic definition's type, and the token itself only when that
\* definition declares no type.
C16_PositionalOrderCastExtras ==
    Parsed =>
        /\ result[1].args = PositionalValues
        /\ result[1].extraArgs =
              [i \in 1..Len(ExtraTokens) |->
                  IF paramsDefinition # <<>> /\ paramsDefinition[1].type # NoType
                  THEN castArgument(ExtraTokens[i], paramsDefinition[1].type)
                  ELSE Str(ExtraTokens[i])]

\* 10 --all 3 10: the parameter takes the first positional token and the
\* two after the toggle are the extra values, in their order.
C16_Witness ==
    /\ Parsed
    /\ Argv = <<<<"1", "0">>, <<"-", "-", "a", "l", "l">>, <<"3">>, <<"1", "0">>>>
    /\ result[1].args = <<Num(10)>>
    /\ result[1].extraArgs = <<Num(3), Num(10)>>

(***************************************************************************)
(* C17.                                                                    *)
(***************************************************************************)
\* C17: every step of the token loop leaves fewer tokens than it found; a
\* call never has both a result and an error; a call that has begun ends,
\* with a result or with an error; and a call that has ended takes no
\* further step.
C17_ParseTerminates ==
    /\ [][/\ AtToken => (args' = args /\ Len(arrays'[args]) < Len(Remaining))
          /\ ~Ended
         ]_vars
    /\ [](~(result # <<>> /\ error # <<>>))
    /\ (pc # "ready") ~> Ended

\* A call that took three tokens one by one, went through every check and
\* returned.
C17_Witness ==
    /\ Parsed /\ error = <<>> /\ pc = "return"
    /\ Len(Argv) = MaxArgs /\ Remaining = <<>>
    /\ \A i \in 1..Len(Argv) : ~TakesValue(Argv[i])

(***************************************************************************)
(* C18.                                                                    *)
(***************************************************************************)
\* The tokens of argv after its first two elements.
CommandLine == SubSeq(argv, 3, Len(argv))

\* The path of the first k tokens of the command line, taken as names.
RECURSIVE CommandPath(_)
CommandPath(k) ==
    IF k = 0 THEN <<"root">> ELSE Append(CommandPath(k - 1), Text(CommandLine[k]))

\* The k-th token of the command line is a command name: it is a valid name
\* and, below the tokens before it, there is a file of that name with .js, a
\* directory of that name with a default.js, or a directory of that name.
IsCommandName(k) ==
    /\ validCommandName(CommandLine[k])
    /\ \/ Append(CommandPath(k - 1), Text(CommandLine[k]) \o ".js") \in files
       \/ CommandPath(k) \o <<"default.js">> \in files
       \/ CommandPath(k) \in files

\* C18: what preProcessArguments returns.  Its commands are the CLI's name
\* and then the first k tokens after argv[1], its args the tokens after
\* those, all of them and in their order; each of the k tokens is a command
\* name, and the token after them, if there is one, is none.
C18_SplitsArgv ==
    returned # <<>> =>
        LET k == Len(returned[1].commands) - 1
        IN  /\ k >= 0 /\ k <= Len(CommandLine)
            /\ returned[1].commands = <<CLIName>> \o SubSeq(CommandLine, 1, k)
            /\ returned[1].args = SubSeq(CommandLine, k + 1, Len(CommandLine))
            /\ \A j \in 1..k : IsCommandName(j)
            /\ k < Len(CommandLine) => ~IsCommandName(k + 1)

\* foo bar dir: foo and bar are commands; dir, a valid name that does not
\* resolve below foo/bar, is the only argument.
C18_Witness ==
    /\ returned # <<>>
    /\ CommandLine = <<<<"f", "o", "o">>, <<"b", "a", "r">>, <<"d", "i", "r">>>>
    /\ returned[1].commands = <<CLIName, <<"f", "o", "o">>, <<"b", "a", "r">>>>
    /\ returned[1].args = <<<<"d", "i", "r">>>>

(***************************************************************************)
(* C19.                                                                    *)
(***************************************************************************)
BeginsWithDash(token) == token # <<>> /\ token[1] = "-"

\* The value a positional token is stored as.
PositionalValue(token) ==
    IF PositionalType = <<>> THEN Str(token)
    ELSE castArgument(token, PositionalType[1])

\* C19: a step of the token loop that takes a token beginning with a dash,
\* whatever tokens came before it, adds no positional and no extra value;
\* and a step of the loop that adds one takes a token that does not begin
\* with a dash, that token alone, and adds the value of that token.
C19_NoDashPositional ==
    [][(Running /\ pc = "loop") =>
          /\ (Remaining # <<>> /\ BeginsWithDash(Head(Remaining))) =>
                /\ commandArgs' = commandArgs
                /\ commandExtraArgs' = commandExtraArgs
          /\ (commandArgs' # commandArgs \/ commandExtraArgs' # commandExtraArgs) =>
                /\ Remaining # <<>> /\ ~BeginsWithDash(Head(Remaining))
                /\ arrays'[args] = Tail(Remaining)
                /\ PositionalStored(PositionalValue(Head(Remaining)))
      ]_vars

\* x -- and a third token: after the positional token the double dash is
\* taken as an option with no name, which is unknown, and the third token is
\* not reached.
C19_Witness ==
    /\ error # <<>> /\ pc = "loop"
    /\ Len(Argv) = 3 /\ Argv[1] = <<"x">> /\ Argv[2] = <<"-", "-">>
    /\ Message = "Unknown option " \o Quoted("")
    /\ commandArgs = <<Str(<<"x">>)>> /\ commandExtraArgs = <<>>

(***************************************************************************)
(* C20.                                                                    *)
(***************************************************************************)
LoneDash == <<"-">>

\* The token at position k follows a token that names an option with a value
\* and is itself in no such place.
RECURSIVE ValueSlot(_)
ValueSlot(k) == k > 1 /\ TakesValue(Argv[k - 1]) /\ ~ValueSlot(k - 1)

\* The sequence without its k-th element.
Without(tokens, k) == SubSeq(tokens, 1, k - 1) \o SubSeq(tokens, k + 1, Len(tokens))

\* C20: the step of the token loop that takes the lone dash takes that token
\* alone and changes nothing else: no error, no result, no option, no
\* required option met, no positional or extra value, no definition used up.
\* And a call ends as the call on a new parser ends for the same tokens
\* without a lone dash that is not in the place of an option's value.
C20_LoneDashNoEffect ==
    /\ [][(AtToken /\ Head(Remaining) = LoneDash) =>
             /\ arrays'[args] = Tail(Remaining)
             /\ error' = <<>> /\ result' = <<>> /\ pc' = "loop"
             /\ commandOptions' = commandOptions
             /\ requiredOptionMap' = requiredOptionMap
             /\ commandArgs' = commandArgs
             /\ commandExtraArgs' = commandExtraArgs
             /\ arrays'[pendingParamDefinitions] = arrays[pendingParamDefinitions]
         ]_vars
    /\ [](Ended =>
             \A k \in 1..Len(Argv) :
                 (Argv[k] = LoneDash /\ ~ValueSlot(k)) =>
                     [result |-> result, error |-> error] = FreshParse(Without(Argv, k)))

\* x - 3: the dash between two positional tokens leaves the result that of
\* x 3.
C20_Witness ==
    /\ Parsed
    /\ Argv = <<<<"x">>, LoneDash, <<"3">>>>
    /\ result[1].args = <<Str(<<"x">>)>>
    /\ result[1].extraArgs = <<Num(3)>>

====
